---------------------------- MODULE Spec2Model ----------------------------
(***************************************************************************)
(* A model of prover/src/utils.rs of scroll-prover: the trusted-setup      *)
(* parameter loader (load_params), the trace reader                        *)
(* (get_block_trace_from_file), the witness assembler                      *)
(* (chunk_trace_to_witness_block), the metric collector                    *)
(* (metric_of_witness_block) and the once-only logging bootstrap           *)
(* (init_env_and_log).                                                     *)
(***************************************************************************)
EXTENDS Integers, Sequences, FiniteSets, TLC

VARIABLES
    \* ---- load_params ----
    fs,               \* the file system under the configured location
    degree,           \* load_params' degree: u32
    serde_fmt,        \* load_params' serde_fmt: Option<SerdeFormat>
    overflow_checks,  \* the build profile: overflow checks on (dev) or off (release)
    load_pc,          \* "call" before load_params runs, "done" after
    load_result,      \* what load_params gave its caller
    expected_len,     \* load_params' local expected_len: <<>> until computed
    read_custom_calls, \* the calls made to ParamsKZG::read_custom
    \* ---- get_block_trace_from_file ----
    trace_files,      \* what each trace path holds: <<>> (no file) or <<document>>
    trace_results,    \* per path: what get_block_trace_from_file gave its caller
    parse_calls,      \* per path: the serde_json::from_slice calls made, in order
    trace_pc,         \* "running", or "aborted" once a call has panicked
    \* ---- chunk_trace_to_witness_block ----
    chunk_input,      \* the sequence the caller passed
    chunk_trace,      \* the function's own chunk_trace, which the capacity check may change
    chunk_calls,      \* the calls made to check_batch_capacity and the witness builder
    chunk_result,     \* what chunk_trace_to_witness_block gave its caller
    chunk_pc,         \* "call" before the function runs, "done" after
    \* ---- metric_of_witness_block ----
    witness_input,    \* the witness block as its owner built it
    witness_block,    \* the witness block metric_of_witness_block is given
    metrics,          \* the BatchMetric of each call so far
    \* ---- init_env_and_log ----
    LOGGER,           \* the state of the Once: Incomplete, Running, Complete, Poisoned
    thread_pc,        \* where each thread is in init_env_and_log
    thread_calls,     \* how many calls each thread has started
    global_logger,    \* the logger installed in the log crate: none, other, log4rs
    log_file_ok,      \* whether log.txt can be created in the output directory
    setup_runs,       \* how many times the call_once closure has been entered
    git_lines,        \* how many "git version" lines have been logged
    returned,         \* how many calls have returned their output directory
    guard_panics      \* how many calls have panicked in LOGGER.call_once itself

paramVars == <<fs, degree, serde_fmt, overflow_checks, load_pc, load_result,
               expected_len, read_custom_calls>>

traceVars == <<trace_files, trace_results, parse_calls, trace_pc>>

chunkVars == <<chunk_input, chunk_trace, chunk_calls, chunk_result, chunk_pc>>

metricVars == <<witness_input, witness_block, metrics>>

logVars == <<LOGGER, thread_pc, thread_calls, global_logger, log_file_ok,
             setup_runs, git_lines, returned, guard_panics>>

vars == <<paramVars, traceVars, chunkVars, metricVars, logVars>>

-----------------------------------------------------------------------------
(* Bounds of the model. *)

\* The degrees tried are 0..MaxDegree; the parameter is a u32.
MaxDegree == 66

\* Trace records are 1..MaxRecord.
MaxRecord == 2

\* Trace files are read from the paths 1..MaxTraceFiles.
MaxTraceFiles == 2

\* A chunk holds at most MaxChunk trace records.
MaxChunk == 3

\* A witness block holds block contexts numbered 1..MaxCtx, at most MaxTx
\* transactions, each of at most MaxSteps steps; its metrics are taken at most
\* MaxMetricCalls times.
MaxCtx == 2

MaxTx == 2

MaxSteps == 7

MaxMetricCalls == 2

\* Threads 1..NThreads call init_env_and_log, each at most MaxCalls times.
NThreads == 2

MaxCalls == 2

-----------------------------------------------------------------------------
(* Unsigned integers wider than TLC's own: a natural number is the sequence *)
(* of its base-256 digits, least significant first, with no leading zero.   *)

Radix == 2 ^ 8

\* file_size is a u64 (Metadata::len), and so is everything compared to it.
WordBits == 64

WordDigits == WordBits \div 8

RECURSIVE Trim(_)
Trim(s) ==
    IF s = <<>> THEN s
    ELSE IF s[Len(s)] = 0 THEN Trim(SubSeq(s, 1, Len(s) - 1)) ELSE s

RECURSIVE FromInt(_)
FromInt(n) == IF n = 0 THEN <<>> ELSE <<n % Radix>> \o FromInt(n \div Radix)

RECURSIVE AddCarry(_, _, _)
AddCarry(a, b, c) ==
    IF a = <<>> /\ b = <<>> THEN FromInt(c)
    ELSE LET x == IF a = <<>> THEN 0 ELSE Head(a)
             y == IF b = <<>> THEN 0 ELSE Head(b)
             s == x + y + c
         IN  <<s % Radix>> \o AddCarry(IF a = <<>> THEN a ELSE Tail(a),
                                        IF b = <<>> THEN b ELSE Tail(b),
                                        s \div Radix)

NatAdd(a, b) == Trim(AddCarry(a, b, 0))

RECURSIVE MulDigit(_, _, _)
MulDigit(a, d, c) ==
    IF a = <<>> THEN FromInt(c)
    ELSE LET s == Head(a) * d + c
         IN  <<s % Radix>> \o MulDigit(Tail(a), d, s \div Radix)

RECURSIVE NatMul(_, _)
NatMul(a, b) ==
    IF b = <<>> THEN <<>>
    ELSE NatAdd(Trim(MulDigit(a, Head(b), 0)),
                IF NatMul(a, Tail(b)) = <<>> THEN <<>>
                ELSE <<0>> \o NatMul(a, Tail(b)))

\* 2^k: the digit 2^(k mod 8) above k div 8 zero digits.
Pow2(k) == [i \in 1..(k \div 8 + 1) |-> IF i = k \div 8 + 1 THEN 2 ^ (k % 8) ELSE 0]

\* n - 1, for n > 0.
RECURSIVE NatPred(_)
NatPred(n) ==
    IF Head(n) > 0 THEN Trim(<<Head(n) - 1>> \o Tail(n))
    ELSE <<Radix - 1>> \o NatPred(Tail(n))

\* The low 64 bits of n: what wrapping u64 arithmetic keeps.
Wrap(n) == Trim(SubSeq(n, 1, IF Len(n) < WordDigits THEN Len(n) ELSE WordDigits))

Overflows(n) == Len(n) > WordDigits

-----------------------------------------------------------------------------
(* u64 arithmetic as rustc compiles it: with overflow checks an overflowing *)
(* operation panics, without them it wraps (and a shift masks its amount).  *)

Val(n) == [ok |-> TRUE, v |-> n]

Panic == [ok |-> FALSE, v |-> <<>>]

CheckedAdd(x, y, checks) ==
    IF ~x.ok \/ ~y.ok THEN Panic
    ELSE IF Overflows(NatAdd(x.v, y.v)) /\ checks THEN Panic
    ELSE Val(Wrap(NatAdd(x.v, y.v)))

CheckedMul(x, y, checks) ==
    IF ~x.ok \/ ~y.ok THEN Panic
    ELSE IF Overflows(NatMul(x.v, y.v)) /\ checks THEN Panic
    ELSE Val(Wrap(NatMul(x.v, y.v)))

\* 1 << d, for d: u32
ShlOne(d, checks) ==
    IF d >= WordBits
    THEN IF checks THEN Panic ELSE Val(Pow2(d % WordBits))
    ELSE Val(Pow2(d))

-----------------------------------------------------------------------------
(* load_params *)

SerdeFormats == {"Processed", "RawBytes", "RawBytesUnchecked"}

NoFormat == "None"

DEFAULT_SERDE_FORMAT == "RawBytesUnchecked"

\* serde_fmt.unwrap_or(DEFAULT_SERDE_FORMAT)
UnwrapFormat(fmt) == IF fmt = NoFormat THEN DEFAULT_SERDE_FORMAT ELSE fmt

\* With every encoding taken for Processed.
G1BytesLenAlways32(fmt) == 32

\* let g1_bytes_len = match serde_fmt { .. }
G1BytesLen(fmt) == IF fmt = "Processed" THEN 32 ELSE 64

\* let expected_len = 4 + g1_num * g1_bytes_len + g2_num * g2_bytes_len;
ExpectedLen(d, fmt, checks) ==
    LET g1_num == CheckedMul(Val(FromInt(2)), ShlOne(d, checks), checks)
        g2_num == Val(FromInt(2))
        g1_bytes_len == Val(FromInt(G1BytesLen(fmt)))
        g2_bytes_len == CheckedMul(Val(FromInt(2)), g1_bytes_len, checks)
    IN  CheckedAdd(
            CheckedAdd(Val(FromInt(4)), CheckedMul(g1_num, g1_bytes_len, checks),
                       checks),
            CheckedMul(g2_num, g2_bytes_len, checks), checks)

\* The one configured location of the model.
ParamsDir == "params_dir"

\* An entry of the file system: what metadata() and File::open see of a path.
Missing == [kind |-> "missing", len |-> <<>>, readable |-> FALSE]

\* The entry at a path: <<location>> or <<location, d>> for location/params<d>.
Lookup(path) ==
    IF Len(path) = 1 THEN fs.loc
    ELSE IF fs.loc.kind = "dir" /\ path[2] = fs.child_degree THEN fs.child
    ELSE Missing

\* format!("{params_dir}/params{degree}")
param_path_for_degree(params_dir, d) == <<params_dir, d>>

Result(kind, error) == [kind |-> kind, error |-> error]

Outcome(result, len, calls) == [result |-> result, len |-> len, calls |-> calls]

\* What load_params returns, the expected_len it computes and the read_custom
\* calls it makes; decode_ok is whether ParamsKZG::read_custom accepts the bytes.
LoadParamsRun(decode_ok) ==
    LET loc == Lookup(<<ParamsDir>>)
    IN
    IF loc.kind = "missing"
    THEN Outcome(Result("Err", "io: metadata"), <<>>, <<>>)
    ELSE
    LET params_path == IF loc.kind = "dir"
                       THEN param_path_for_degree(ParamsDir, degree)
                       ELSE <<ParamsDir>>
        f == Lookup(params_path)
    IN
    IF f.kind = "missing"
    THEN Outcome(Result("Err", "Need to download params"), <<>>, <<>>)
    ELSE IF ~f.readable
    THEN Outcome(Result("Err", "io: open"), <<>>, <<>>)
    ELSE
    LET file_size == f.len
        fmt == UnwrapFormat(serde_fmt)
        expected == ExpectedLen(degree, fmt, overflow_checks)
    IN
    IF ~expected.ok
    THEN Outcome(Result("Panic", "arithmetic overflow"), <<expected>>, <<>>)
    ELSE IF file_size # expected.v
    THEN Outcome(Result("Err", "invalid params file len"), <<expected>>, <<>>)
    ELSE Outcome(IF decode_ok
                 THEN Result("Ok", "none")
                 ELSE Result("Err", "read_custom"),
                 <<expected>>,
                 <<[len |-> file_size, format |-> fmt]>>)

LoadParams ==
    /\ load_pc = "call"
    /\ \E decode_ok \in BOOLEAN :
         /\ load_result' = LoadParamsRun(decode_ok).result
         /\ expected_len' = LoadParamsRun(decode_ok).len
         /\ read_custom_calls' = LoadParamsRun(decode_ok).calls
    /\ load_pc' = "done"
    /\ UNCHANGED <<fs, degree, serde_fmt, overflow_checks>>
    /\ UNCHANGED <<traceVars, chunkVars, metricVars, logVars>>

\* The size the file layout gives (the comment above the length check): a
\* 4-byte length, 2 * 2^d G1 points of elem bytes, 2 G2 points of 2 * elem bytes.
LayoutLen(d, elem) ==
    NatAdd(NatAdd(FromInt(4), NatMul(NatMul(FromInt(2), Pow2(d)), FromInt(elem))),
           FromInt(2 * (2 * elem)))

\* File sizes worth trying for degree d: the layout's size for either element
\* length, and one byte less and more (as a u64).
FileSizes(d) ==
    UNION { { NatPred(Wrap(LayoutLen(d, e))), Wrap(LayoutLen(d, e)),
              Wrap(NatAdd(LayoutLen(d, e), FromInt(1))) } : e \in {32, 64} }

Files(d) ==
    [kind : {"file"}, len : FileSizes(d), readable : BOOLEAN]

FileSystems(d) ==
    \* the location is missing
    { [loc |-> Missing, child_degree |-> d, child |-> Missing] }
    \* the location is a file
    \cup { [loc |-> f, child_degree |-> d, child |-> Missing] : f \in Files(d) }
    \* the location is a directory, with or without params<d>
    \cup { [loc |-> [kind |-> "dir", len |-> FromInt(64), readable |-> TRUE],
            child_degree |-> d, child |-> c] :
           c \in Files(d) \cup {Missing} }
    \* the directory holds the parameters of another degree only
    \cup { [loc |-> [kind |-> "dir", len |-> FromInt(64), readable |-> TRUE],
            child_degree |-> d + 1,
            child |-> [kind |-> "file", len |-> Wrap(LayoutLen(d + 1, 64)),
                       readable |-> TRUE]] }

\* The loader, idle.
ParamsIdle ==
    /\ fs = [loc |-> Missing, child_degree |-> 0, child |-> Missing]
    /\ degree = 0
    /\ serde_fmt = NoFormat
    /\ overflow_checks = FALSE
    /\ load_pc = "done"
    /\ load_result = Result("none", "none")
    /\ expected_len = <<>>
    /\ read_custom_calls = <<>>

\* The trace reader, idle.
TraceIdle ==
    /\ trace_files = <<>>
    /\ trace_results = <<>>
    /\ parse_calls = <<>>
    /\ trace_pc = "running"

\* The witness assembler, idle.
ChunkIdle ==
    /\ chunk_input = <<>>
    /\ chunk_trace = <<>>
    /\ chunk_calls = <<>>
    /\ chunk_result = [kind |-> "none", error |-> "none", witness |-> <<>>]
    /\ chunk_pc = "done"

\* The metric collector, idle.
MetricIdle ==
    /\ witness_input = [ctxs |-> {}, txs |-> <<>>]
    /\ witness_block = [ctxs |-> {}, txs |-> <<>>]
    /\ metrics = <<>>

Threads == 1..NThreads

\* No thread has called init_env_and_log, and none will.
LogIdle ==
    /\ LOGGER = "Incomplete"
    /\ thread_pc = [t \in Threads |-> "idle"]
    /\ thread_calls = [t \in Threads |-> MaxCalls]
    /\ global_logger = "none"
    /\ log_file_ok = TRUE
    /\ setup_runs = 0
    /\ git_lines = 0
    /\ returned = 0
    /\ guard_panics = 0

ParamsInit ==
    /\ TraceIdle
    /\ ChunkIdle
    /\ MetricIdle
    /\ LogIdle
    /\ degree \in 0..MaxDegree
    /\ serde_fmt \in SerdeFormats \cup {NoFormat}
    /\ overflow_checks \in BOOLEAN
    /\ fs \in FileSystems(degree)
    /\ load_pc = "call"
    /\ load_result = Result("none", "none")
    /\ expected_len = <<>>
    /\ read_custom_calls = <<>>

ParamsNext == LoadParams

SpecParams == ParamsInit /\ [][ParamsNext]_vars

-----------------------------------------------------------------------------
(* Properties of load_params *)

\* The element length the format description gives an encoding: 32 for
\* Processed, 64 for RawBytes, RawBytesUnchecked and for none given.
ElemLen(fmt) == IF fmt = "Processed" THEN 32 ELSE 64

\* 4 + (2 * 2^d) * elem_len + 2 * (2 * elem_len), as a natural number.
ClosedFormLen(d, fmt) ==
    NatAdd(NatAdd(FromInt(4),
                  NatMul(NatMul(FromInt(2), Pow2(d)), FromInt(ElemLen(fmt)))),
           NatMul(FromInt(2), NatMul(FromInt(2), FromInt(ElemLen(fmt)))))

\* The path the configured location resolves to: params<degree> under a
\* directory, the location itself otherwise.
ResolvedEntry ==
    IF fs.loc.kind = "dir" THEN Lookup(<<ParamsDir, degree>>) ELSE fs.loc

\* C1: for degree in 1..24 and every encoding (none meaning RawBytesUnchecked),
\* load_params calls read_custom only when the file size is exactly
\* 4 + (2 * 2^degree) * elem_len + 2 * (2 * elem_len); with a file of any other
\* size it returns an error and makes no read_custom call.
C1_ReadCustomOnlyOnExactLen ==
    (load_pc = "done" /\ degree \in 1..24) =>
        /\ read_custom_calls # <<>> =>
              /\ ResolvedEntry.kind # "missing"
              /\ ResolvedEntry.len = ClosedFormLen(degree, serde_fmt)
              /\ Len(read_custom_calls) = 1
        /\ (ResolvedEntry.kind # "missing"
              /\ ResolvedEntry.len # ClosedFormLen(degree, serde_fmt)) =>
              /\ load_result.kind = "Err"
              /\ read_custom_calls = <<>>

\* degree 1, RawBytes, a 516-byte file: read_custom is reached.
C1_Witness ==
    /\ load_pc = "done"
    /\ degree = 1
    /\ serde_fmt = "RawBytes"
    /\ ResolvedEntry.len = FromInt(516)
    /\ read_custom_calls = <<[len |-> FromInt(516), format |-> "RawBytes"]>>

\* C2: whenever the resolved path does not exist (a directory lacking
\* params<degree>, or a direct file location that is missing), load_params
\* fails with the error telling that the parameters must be downloaded.
C2_MissingPathGivesDownloadGuidance ==
    (load_pc = "done" /\ ResolvedEntry.kind = "missing") =>
        load_result = Result("Err", "Need to download params")

\* C10: whenever load_params computes expected_len, for every u32 degree and
\* every encoding, the computation completes without overflow and yields
\* exactly 4 + (2 * 2^degree) * elem_len + 2 * (2 * elem_len).
C10_ExpectedLenTotal ==
    expected_len # <<>> =>
        /\ expected_len[1].ok
        /\ expected_len[1].v = ClosedFormLen(degree, serde_fmt)

-----------------------------------------------------------------------------
(* get_block_trace_from_file *)

Records == 1..MaxRecord

TracePaths == 1..MaxTraceFiles

\* The content of a trace file, as far as serde_json sees it: whether it is
\* JSON at all, the BlockTrace its top-level members make (<<>> when they make
\* none) and the BlockTrace its "result" member makes (<<>> when none).
Documents ==
    { [json |-> FALSE, top |-> <<>>, result |-> <<>>] }
    \cup [json : {TRUE},
          top : {<<>>} \cup { <<r>> : r \in Records },
          result : {<<>>} \cup { <<r>> : r \in Records }]

Ok(v) == [ok |-> TRUE, v |-> <<v>>, e |-> "none"]

Err(e) == [ok |-> FALSE, v |-> <<>>, e |-> e]

\* serde_json::from_slice::<BlockTrace>(&buffer)
from_slice_BlockTrace(doc) ==
    IF ~doc.json THEN Err("expected value")
    ELSE IF doc.top = <<>> THEN Err("missing field of BlockTrace")
    ELSE Ok(doc.top[1])

\* serde_json::from_slice::<BlockTraceJsonRpcResult>(&buffer)
from_slice_BlockTraceJsonRpcResult(doc) ==
    IF ~doc.json THEN Err("expected value")
    ELSE IF doc.result = <<>> THEN Err("missing field result")
    ELSE Ok([result |-> doc.result[1]])

\* With the fallback error left out.
PanicMessageFirstErrorOnly(path, e1, e2) == [path |-> path, e1 |-> e1, e2 |-> e1]

\* panic!("unable to load BlockTrace from {:?}, {:?}, {:?}", path, e1, e2)
PanicMessage(path, e1, e2) == [path |-> path, e1 |-> e1, e2 |-> e2]

Returned(record, calls) ==
    [kind |-> "Returned", value |-> <<record>>, message |-> <<>>, calls |-> calls]

Panicked(message, calls) ==
    [kind |-> "Panic", value |-> <<>>, message |-> <<message>>, calls |-> calls]

\* With the envelope shape tried first.
BlockTraceEnvelopeFirst(path, file) ==
    IF file = <<>>
    THEN Panicked([path |-> path, e1 |-> "File::open", e2 |-> "none"], <<>>)
    ELSE
    LET buffer == file[1]
        second == from_slice_BlockTraceJsonRpcResult(buffer)
        first == from_slice_BlockTrace(buffer)
    IN  IF second.ok
        THEN Returned(second.v[1].result, <<"BlockTraceJsonRpcResult">>)
        ELSE IF first.ok
        THEN Returned(first.v[1], <<"BlockTraceJsonRpcResult", "BlockTrace">>)
        ELSE Panicked(PanicMessage(path, first.e, second.e),
                      <<"BlockTraceJsonRpcResult", "BlockTrace">>)

\* What get_block_trace_from_file(path) does with the file at path: the value
\* it returns or the panic it raises, and the parses it attempts.
BlockTraceFromFile(path, file) ==
    IF file = <<>>
    THEN Panicked([path |-> path, e1 |-> "File::open", e2 |-> "none"], <<>>)
    ELSE
    LET buffer == file[1]
        first == from_slice_BlockTrace(buffer)
        second == from_slice_BlockTraceJsonRpcResult(buffer)
    IN  IF first.ok
        THEN Returned(first.v[1], <<"BlockTrace">>)
        ELSE IF second.ok
        THEN Returned(second.v[1].result, <<"BlockTrace", "BlockTraceJsonRpcResult">>)
        ELSE Panicked(PanicMessage(path, first.e, second.e),
                      <<"BlockTrace", "BlockTraceJsonRpcResult">>)

Unread == [kind |-> "none", value |-> <<>>, message |-> <<>>]

\* One call of get_block_trace_from_file, on a path not read yet. A panic ends
\* the caller.
GetBlockTraceFromFile(path) ==
    /\ trace_pc = "running"
    /\ trace_results[path] = Unread
    /\ LET run == BlockTraceFromFile(path, trace_files[path])
       IN  /\ trace_results' =
                 [trace_results EXCEPT ![path] =
                     [kind |-> run.kind, value |-> run.value, message |-> run.message]]
           /\ parse_calls' = [parse_calls EXCEPT ![path] = run.calls]
           /\ trace_pc' = IF run.kind = "Panic" THEN "aborted" ELSE "running"
    /\ UNCHANGED trace_files
    /\ UNCHANGED <<paramVars, chunkVars, metricVars, logVars>>

TraceInit ==
    /\ ParamsIdle
    /\ LogIdle
    /\ ChunkIdle
    /\ MetricIdle
    /\ trace_files \in [TracePaths -> {<<>>} \cup { <<d>> : d \in Documents }]
    /\ trace_results = [p \in TracePaths |-> Unread]
    /\ parse_calls = [p \in TracePaths |-> <<>>]
    /\ trace_pc = "running"

TraceNext == \E path \in TracePaths : GetBlockTraceFromFile(path)

SpecTrace == TraceInit /\ [][TraceNext]_vars

-----------------------------------------------------------------------------
(* Properties of get_block_trace_from_file *)

\* The bytes at path parse under neither shape.
NeitherShape(path) ==
    /\ trace_files[path] # <<>>
    /\ ~from_slice_BlockTrace(trace_files[path][1]).ok
    /\ ~from_slice_BlockTraceJsonRpcResult(trace_files[path][1]).ok

C4_BareFirstThenEnvelope ==
    \A path \in TracePaths :
        (trace_results[path] # Unread /\ trace_files[path] # <<>>) =>
            LET doc == trace_files[path][1]
            IN  /\ doc.json /\ doc.top # <<>> =>
                      /\ trace_results[path].kind = "Returned"
                      /\ trace_results[path].value = doc.top
                      /\ parse_calls[path] = <<"BlockTrace">>
                /\ doc.json /\ doc.top = <<>> /\ doc.result # <<>> =>
                      /\ trace_results[path].kind = "Returned"
                      /\ trace_results[path].value = doc.result
                      /\ parse_calls[path] = <<"BlockTrace", "BlockTraceJsonRpcResult">>
                /\ "BlockTraceJsonRpcResult" \in { parse_calls[path][i] :
                                                    i \in DOMAIN parse_calls[path] } =>
                      /\ parse_calls[path][1] = "BlockTrace"
                      /\ doc.top = <<>> \/ ~doc.json

\* A document that parses under both shapes, with different records, has been
\* read as its bare record; another that parses only as an envelope has been
\* read as its inner record.
C4_Witness ==
    /\ trace_files[1] = <<[json |-> TRUE, top |-> <<1>>, result |-> <<2>>]>>
    /\ trace_results[1].value = <<1>>
    /\ trace_files[2] = <<[json |-> TRUE, top |-> <<>>, result |-> <<2>>]>>
    /\ trace_results[2].value = <<2>>

-----------------------------------------------------------------------------
(* chunk_trace_to_witness_block *)

\* The sequences of at most n elements of S.
SeqsUpTo(S, n) == UNION { [1..k -> S] : k \in 0..n }

ChunkTraces == SeqsUpTo(Records, MaxChunk)

\* What check_batch_capacity(&mut chunk_trace) may do: accept or refuse, and
\* leave any sequence behind in chunk_trace.
CapacityOutcomes ==
    [ok : {TRUE}, seq : ChunkTraces, error : {"none"}]
    \cup [ok : {FALSE}, seq : ChunkTraces, error : {"circuit capacity exceeded"}]

\* The outcomes of block_traces_to_witness_block.
BuildErrors == {"none", "witness build failed"}

\* The witness block block_traces_to_witness_block makes of a sequence.
BuildWitness(seq) == [built_from |-> seq]

ChunkOutcome(kind, error, witness, calls, after) ==
    [result |-> [kind |-> kind, error |-> error, witness |-> witness],
     calls |-> calls, chunk_trace |-> after]

CheckCall(before, cap) ==
    [fn |-> "check_batch_capacity", arg |-> before, after |-> cap.seq, ok |-> cap.ok]

BuildCall(arg, build_error) ==
    [fn |-> "block_traces_to_witness_block", arg |-> arg, after |-> arg,
     ok |-> build_error = "none"]

BuildResult(arg, build_error, calls) ==
    IF build_error = "none"
    THEN ChunkOutcome("Ok", "none", <<BuildWitness(arg)>>, calls, arg)
    ELSE ChunkOutcome("Err", build_error, <<>>, calls, arg)

\* Without the emptiness check.
ChunkTraceRunNoEmptyCheck(chunk, cap, build_error) ==
    IF ~cap.ok
    THEN ChunkOutcome("Err", cap.error, <<>>, <<CheckCall(chunk, cap)>>, cap.seq)
    ELSE BuildResult(cap.seq, build_error,
                     <<CheckCall(chunk, cap), BuildCall(cap.seq, build_error)>>)

\* With the capacity check's error dropped.
ChunkTraceRunIgnoringCapacity(chunk, cap, build_error) ==
    IF chunk = <<>>
    THEN ChunkOutcome("Err", "Empty chunk trace", <<>>, <<>>, chunk)
    ELSE BuildResult(cap.seq, build_error,
                     <<CheckCall(chunk, cap), BuildCall(cap.seq, build_error)>>)

\* With the witness built from a copy taken before the capacity check.
ChunkTraceRunFromCopy(chunk, cap, build_error) ==
    IF chunk = <<>>
    THEN ChunkOutcome("Err", "Empty chunk trace", <<>>, <<>>, chunk)
    ELSE IF ~cap.ok
    THEN ChunkOutcome("Err", cap.error, <<>>, <<CheckCall(chunk, cap)>>, cap.seq)
    ELSE BuildResult(chunk, build_error,
                     <<CheckCall(chunk, cap), BuildCall(chunk, build_error)>>)

\* chunk_trace_to_witness_block(chunk), when check_batch_capacity does cap and
\* block_traces_to_witness_block ends with build_error.
ChunkTraceRun(chunk, cap, build_error) ==
    IF chunk = <<>>
    THEN ChunkOutcome("Err", "Empty chunk trace", <<>>, <<>>, chunk)
    ELSE IF ~cap.ok
    THEN ChunkOutcome("Err", cap.error, <<>>, <<CheckCall(chunk, cap)>>, cap.seq)
    ELSE BuildResult(cap.seq, build_error,
                     <<CheckCall(chunk, cap), BuildCall(cap.seq, build_error)>>)

ChunkTraceToWitnessBlock ==
    /\ chunk_pc = "call"
    /\ \E cap \in CapacityOutcomes, build_error \in BuildErrors :
         LET run == ChunkTraceRun(chunk_input, cap, build_error)
         IN  /\ chunk_result' = run.result
             /\ chunk_calls' = run.calls
             /\ chunk_trace' = run.chunk_trace
    /\ chunk_pc' = "done"
    /\ UNCHANGED chunk_input
    /\ UNCHANGED <<paramVars, traceVars, metricVars, logVars>>

ChunkInit ==
    /\ ParamsIdle
    /\ LogIdle
    /\ TraceIdle
    /\ MetricIdle
    /\ chunk_input \in ChunkTraces
    /\ chunk_trace = chunk_input
    /\ chunk_calls = <<>>
    /\ chunk_result = [kind |-> "none", error |-> "none", witness |-> <<>>]
    /\ chunk_pc = "call"

ChunkNext == ChunkTraceToWitnessBlock

SpecChunk == ChunkInit /\ [][ChunkNext]_vars

-----------------------------------------------------------------------------
(* Properties of chunk_trace_to_witness_block *)

CallsTo(fn) == { i \in DOMAIN chunk_calls : chunk_calls[i].fn = fn }

\* C5: called with an empty sequence, chunk_trace_to_witness_block returns the
\* empty-chunk error and calls neither check_batch_capacity nor
\* block_traces_to_witness_block.
C5_EmptyChunkNoCalls ==
    (chunk_pc = "done" /\ chunk_input = <<>>) =>
        /\ chunk_result.kind = "Err"
        /\ chunk_result.error = "Empty chunk trace"
        /\ chunk_calls = <<>>

\* An empty chunk has been refused.
C5_Witness ==
    /\ chunk_pc = "done"
    /\ chunk_input = <<>>
    /\ chunk_result.error = "Empty chunk trace"

\* C6: when the capacity check fails on a non-empty sequence, its error is
\* returned and the witness builder is not called; every call to the witness
\* builder comes after a successful capacity check that left the sequence the
\* builder is given.
C6_BuilderOnlyAfterCapacityCheck ==
    /\ \A i \in CallsTo("check_batch_capacity") :
          ~chunk_calls[i].ok =>
              /\ chunk_result.kind = "Err"
              /\ chunk_result.error = "circuit capacity exceeded"
              /\ CallsTo("block_traces_to_witness_block") = {}
    /\ \A i \in CallsTo("block_traces_to_witness_block") :
          \E j \in CallsTo("check_batch_capacity") :
              /\ j < i
              /\ chunk_calls[j].ok
              /\ chunk_calls[j].after = chunk_calls[i].arg

\* A non-empty chunk has been refused by the capacity check.
C6_Witness ==
    /\ chunk_pc = "done"
    /\ chunk_input # <<>>
    /\ chunk_calls # <<>>
    /\ ~chunk_calls[1].ok
    /\ chunk_result.error = "circuit capacity exceeded"

\* C8: on success exactly one witness is returned, made by a single call of
\* the witness builder on the sequence as the capacity check left it; the
\* assembler itself changes nothing between the check and the builder.
C8_WitnessFromAdjustedSequence ==
    (chunk_pc = "done" /\ chunk_result.kind = "Ok") =>
        /\ Cardinality(CallsTo("block_traces_to_witness_block")) = 1
        /\ Cardinality(CallsTo("check_batch_capacity")) = 1
        /\ \A i \in CallsTo("check_batch_capacity"),
              j \in CallsTo("block_traces_to_witness_block") :
              /\ i < j
              /\ chunk_calls[i].arg = chunk_input
              /\ chunk_calls[j].arg = chunk_calls[i].after
              /\ chunk_result.witness = <<BuildWitness(chunk_calls[i].after)>>

\* A chunk the capacity check reordered has been made a witness.
C8_Witness ==
    /\ chunk_pc = "done"
    /\ chunk_result.kind = "Ok"
    /\ chunk_input = <<1, 2>>
    /\ chunk_result.witness = <<BuildWitness(<<2, 1>>)>>

-----------------------------------------------------------------------------
(* metric_of_witness_block *)

\* The steps of a transaction: k steps.
Steps(k) == [i \in 1..k |-> "step"]

Transactions == { [steps |-> Steps(k)] : k \in 0..MaxSteps }

\* Block<Fr>, as far as the metrics read it: the keys of context.ctxs and txs.
WitnessBlocks == [ctxs : SUBSET (1..MaxCtx), txs : SeqsUpTo(Transactions, MaxTx)]

\* block.txs.iter().map(|tx| tx.steps.len()).sum::<usize>()
RECURSIVE SumSteps(_)
SumSteps(txs) ==
    IF txs = <<>> THEN 0 ELSE Len(Head(txs).steps) + SumSteps(Tail(txs))

BatchMetric(num_block, num_tx, num_step) ==
    [num_block |-> num_block, num_tx |-> num_tx, num_step |-> num_step]

\* With the transactions counted in place of their steps.
MetricCountingTxsAsSteps(block) ==
    BatchMetric(Cardinality(block.ctxs), Len(block.txs), Len(block.txs))

metric_of_witness_block(block) ==
    BatchMetric(Cardinality(block.ctxs), Len(block.txs), SumSteps(block.txs))

MetricOfWitnessBlock ==
    /\ Len(metrics) < MaxMetricCalls
    /\ metrics' = Append(metrics, metric_of_witness_block(witness_block))
    /\ UNCHANGED <<witness_input, witness_block>>
    /\ UNCHANGED <<paramVars, traceVars, chunkVars, logVars>>

MetricInit ==
    /\ ParamsIdle
    /\ LogIdle
    /\ TraceIdle
    /\ ChunkIdle
    /\ witness_input \in WitnessBlocks
    /\ witness_block = witness_input
    /\ metrics = <<>>

MetricNext == MetricOfWitnessBlock

SpecMetric == MetricInit /\ [][MetricNext]_vars

-----------------------------------------------------------------------------
(* Properties of metric_of_witness_block *)

\* The sum of the elements of a sequence of numbers.
RECURSIVE Sum(_)
Sum(ns) == IF ns = <<>> THEN 0 ELSE Head(ns) + Sum(Tail(ns))

\* C9: every call gives num_block = the number of block contexts, num_tx = the
\* number of transactions and num_step = the sum of the transactions' step
\* counts; the witness block is left as it was, and two calls on the same
\* witness block give the same metrics.
C9_MetricsCountWitness ==
    /\ witness_block = witness_input
    /\ \A i \in DOMAIN metrics :
          /\ metrics[i].num_block = Cardinality(witness_input.ctxs)
          /\ metrics[i].num_tx = Len(witness_input.txs)
          /\ metrics[i].num_step =
                Sum([k \in DOMAIN witness_input.txs |->
                        Len(witness_input.txs[k].steps)])
    /\ \A i, j \in DOMAIN metrics : metrics[i] = metrics[j]

\* Two transactions of 5 and 7 steps: 12 steps, at both calls.
C9_Witness ==
    /\ witness_block.txs = <<[steps |-> Steps(5)], [steps |-> Steps(7)]>>
    /\ Len(metrics) = 2
    /\ metrics[1].num_step = 12
    /\ metrics[2].num_step = 12

-----------------------------------------------------------------------------
(* init_env_and_log *)

\* dotenv::dotenv().ok(); let output_dir = create_output_dir(id);
\* create_output_dir unwraps fs::create_dir_all, and panics when it fails.
CreateOutputDir(t) ==
    /\ thread_pc[t] = "idle"
    /\ thread_calls[t] < MaxCalls
    /\ thread_calls' = [thread_calls EXCEPT ![t] = @ + 1]
    /\ \E dir_ok \in BOOLEAN :
          thread_pc' = [thread_pc EXCEPT
                           ![t] = IF dir_ok THEN "call_once" ELSE "panicked"]
    /\ UNCHANGED <<LOGGER, global_logger, log_file_ok, setup_runs, git_lines,
                   returned, guard_panics>>
    /\ UNCHANGED <<paramVars, traceVars, chunkVars, metricVars>>

\* LOGGER.call_once(..) on an Incomplete Once: this thread runs the closure.
CallOnceEnter(t) ==
    /\ thread_pc[t] = "call_once"
    /\ LOGGER = "Incomplete"
    /\ LOGGER' = "Running"
    /\ thread_pc' = [thread_pc EXCEPT ![t] = "closure"]
    /\ setup_runs' = setup_runs + 1
    /\ UNCHANGED <<thread_calls, global_logger, log_file_ok, git_lines, returned,
                   guard_panics>>
    /\ UNCHANGED <<paramVars, traceVars, chunkVars, metricVars>>

\* The closure: the file appender and log4rs::init_config are unwrapped, so a
\* log file that cannot be created or a logger installed already panics, which
\* poisons the Once; otherwise the logger is installed and the git version
\* logged, the Once completes and the call returns.
RunSetup(t) ==
    /\ thread_pc[t] = "closure"
    /\ IF log_file_ok /\ global_logger = "none"
       THEN /\ global_logger' = "log4rs"
            /\ git_lines' = git_lines + 1
            /\ LOGGER' = "Complete"
            /\ thread_pc' = [thread_pc EXCEPT ![t] = "idle"]
            /\ returned' = returned + 1
       ELSE /\ LOGGER' = "Poisoned"
            /\ thread_pc' = [thread_pc EXCEPT ![t] = "panicked"]
            /\ UNCHANGED <<global_logger, git_lines, returned>>
    /\ UNCHANGED <<thread_calls, log_file_ok, setup_runs, guard_panics>>
    /\ UNCHANGED <<paramVars, traceVars, chunkVars, metricVars>>

\* LOGGER.call_once(..) on a Complete Once: the closure is skipped and the
\* call returns. (On a Running Once the thread waits.)
CallOnceSkip(t) ==
    /\ thread_pc[t] = "call_once"
    /\ LOGGER = "Complete"
    /\ thread_pc' = [thread_pc EXCEPT ![t] = "idle"]
    /\ returned' = returned + 1
    /\ UNCHANGED <<LOGGER, thread_calls, global_logger, log_file_ok, setup_runs,
                   git_lines, guard_panics>>
    /\ UNCHANGED <<paramVars, traceVars, chunkVars, metricVars>>

\* LOGGER.call_once(..) on a Poisoned Once panics.
CallOncePoisoned(t) ==
    /\ thread_pc[t] = "call_once"
    /\ LOGGER = "Poisoned"
    /\ thread_pc' = [thread_pc EXCEPT ![t] = "panicked"]
    /\ guard_panics' = guard_panics + 1
    /\ UNCHANGED <<LOGGER, thread_calls, global_logger, log_file_ok, setup_runs,
                   git_lines, returned>>
    /\ UNCHANGED <<paramVars, traceVars, chunkVars, metricVars>>

LogInit ==
    /\ ParamsIdle
    /\ TraceIdle
    /\ ChunkIdle
    /\ MetricIdle
    /\ LOGGER = "Incomplete"
    /\ thread_pc = [t \in Threads |-> "idle"]
    /\ thread_calls = [t \in Threads |-> 0]
    /\ global_logger \in {"none", "other"}
    /\ log_file_ok \in BOOLEAN
    /\ setup_runs = 0
    /\ git_lines = 0
    /\ returned = 0
    /\ guard_panics = 0

LogNext ==
    \E t \in Threads :
        \/ CreateOutputDir(t)
        \/ CallOnceEnter(t)
        \/ RunSetup(t)
        \/ CallOnceSkip(t)
        \/ CallOncePoisoned(t)

SpecLog == LogInit /\ [][LogNext]_vars

-----------------------------------------------------------------------------
(* Properties of init_env_and_log *)

\* C7: however many threads call init_env_and_log and however often, the
\* logging setup (the logger configuration and the git version line) runs
\* exactly once, and every call that reaches the guard after the first
\* completes without error and without repeating the setup output.
C7_SetupOnceAndLaterCallsSucceed ==
    /\ setup_runs <= 1
    /\ git_lines <= 1
    /\ returned > 0 => (setup_runs = 1 /\ git_lines = 1)
    /\ guard_panics = 0

=============================================================================
